---- MODULE Spec2Model ----
(***************************************************************************)
(* Model of the toxicity-amplification pipeline (codot).                   *)
(*                                                                         *)
(*   Spec         the batch orchestrator of main.py:                       *)
(*                analyze_texts_with_retry driving one                     *)
(*                analyze_single_text task per pending text, gated by the  *)
(*                module-level semaphore and rate limiter.                 *)
(*   FairSpec     Spec with weak fairness on every step (the event loop    *)
(*                runs every ready coroutine; every external call returns  *)
(*                or raises).                                              *)
(*   SpecAnalyze  the greedy search of                                     *)
(*                ToxicityAnalyzer.analyze_toxicity for one text.          *)
(***************************************************************************)
EXTENDS Integers, Sequences, FiniteSets, TLC

\* ------------------------------------------------------------------ bounds
\* Longest input list handed to analyze_texts_with_retry.
MaxTexts == 2
\* Most analyses the external services let fail during one batch call.
MaxFailures == 7

\* Most iterations asked of analyze_toxicity.
MaxIterations == 3
\* Scores are compared only; 0..MaxScore stands for the floats in [0, 1].
MaxScore == 2
MaxSentences == 3
MaxLen == 4
MaxTokens == 5

\* --------------------------------------------------------- program constants
MAX_CONCURRENT == 5
max_retries == 3
NUMBER_OF_TRIES_FOR_EVERY_CALL == 2
RETRY_DELAY == 5

\* The strings an input item may hold.
TextValues == {"a", "b"}
\* The texts analyze_toxicity is called on, the texts a generation may be,
\* the sentences the scorer may pick, and the scores it may give.
OriginalTexts == {"a"}
Candidates == {"x", "y"}
Sentences == {"s", "t"}
Scores == 0..MaxScore

VARIABLES
    \* ---- analyze_texts_with_retry (main.py)
    input_texts,   \* the list as the caller passed it (never written)
    texts,         \* the caller's list object
    retry_texts,   \* the list the name retry_texts is bound to
    aliased,       \* TRUE while retry_texts and texts are one object
    results,       \* records collected so far
    attempt,       \* loop variable of the retry loop
    tasks,         \* the tasks of the current round
    pc,            \* position of the orchestrator
    sem_value,     \* free permits of the module-level semaphore
    slept,         \* the backoff delays awaited so far, in order
    reported,      \* the count printed by the final failure message
    analysed,      \* per text string: analyses launched so far
    failed_texts,  \* text strings of which some analysis raised
    round_failed,  \* the same, for the analyses of the current round
    ok_texts,      \* text strings of which some analysis returned
    failures,      \* analyses that raised so far
    \* ---- ToxicityAnalyzer.analyze_toxicity (toxicity_analyzer.py)
    a_pc,                 \* position inside analyze_toxicity
    text,                 \* the parameter text, rebound on acceptance
    original_text,
    max_iterations,
    iteration_number,     \* iterations completed
    tox_texts, tox_scores, tox_sents,
    possible_tox_texts, possible_tox_scores, possible_tox_sents,
    generations,          \* _perform_experiment: the attempts that succeeded
    tries,                \* _perform_experiment: attempts made
    text_after,           \* value of text at the end of each iteration
    data,                 \* the ToxicityData returned
    prompt_texts,         \* the text each _perform_experiment call was given
    accepted_log,         \* per iteration: TRUE when lines 71-74 ran
    delay,                \* _perform_experiment: seconds slept in this call
    \* ---- one attempt's ToxicityAnalyzer._evaluate_toxicity call
    e_pc,                 \* position inside _evaluate_toxicity
    e_text,               \* the parameter text: the candidate being scored
    sentences,            \* split_text(text)
    evaluations,          \* per sentence: the state of its evaluate call
    e_result,             \* what _evaluate_toxicity returned
    \* ---- TextProcessor.split_text (text_processor.py)
    s_pc,                 \* which of the two split_text calls have run
    split_in,             \* the text given to the first call
    split_out,            \* its sentences
    resplit_out,          \* the sentences of the rejoined sentences
    \* ---- the thinking-section handling of _perform_experiment
    t_pc,                 \* whether lines 114-125 have run
    response,             \* the raw response of the provider
    end_text,             \* response.split(end)[1]
    candidate,            \* the value line 125 binds tox_text to
    \* ---- the external calls of the running analyses
    requests              \* per task: where its analysis is, and its calls in flight

batch_vars == <<input_texts, texts, retry_texts, aliased, results, attempt,
                tasks, pc, sem_value, slept, reported, analysed,
                failed_texts, round_failed, ok_texts, failures>>

analyze_vars == <<a_pc, text, original_text, max_iterations, iteration_number,
                  tox_texts, tox_scores, tox_sents, possible_tox_texts,
                  possible_tox_scores, possible_tox_sents, generations, tries,
                  text_after, data, prompt_texts, accepted_log, delay>>

score_vars == <<e_pc, e_text, sentences, evaluations, e_result>>

split_vars == <<s_pc, split_in, split_out, resplit_out>>

strip_vars == <<t_pc, response, end_text, candidate>>

request_vars == <<requests>>

function_vars == <<score_vars, split_vars, strip_vars, request_vars>>

vars == <<batch_vars, analyze_vars, function_vars>>

\* ------------------------------------------------------------------ helpers
Range(s) == {s[i] : i \in DOMAIN s}

RECURSIVE Pow2(_)
Pow2(n) == IF n = 0 THEN 1 ELSE 2 * Pow2(n - 1)

SeqsUpTo(S, n) == UNION {[1..k -> S] : k \in 0..n}

\* Input lists up to the naming of their strings: the first item holds "a".
InputLists == {s \in SeqsUpTo(TextValues, MaxTexts) : s = <<>> \/ s[1] = "a"}

RECURSIVE SelectNotIn(_, _)
\* [text for text in retry_texts if text not in [r.get("text") for r in results]]
SelectNotIn(s, res) ==
    IF s = <<>> THEN <<>>
    ELSE LET rest == SelectNotIn(Tail(s), res)
         IN  IF Head(s) \in {res[i].text : i \in DOMAIN res}
             THEN rest
             ELSE <<Head(s)>> \o rest

\* analyze_single_text without its except clause: the exception stays in the task.
single_text_result_uncaught(t, outcome) ==
    IF outcome = "return"
    THEN [kind |-> "data", text |-> t]
    ELSE [kind |-> "exception", text |-> t]

\* An except clause whose record carries no "error" key.
single_text_result_swallowed(t, outcome) == [kind |-> "data", text |-> t]

\* What analyze_single_text returns for one outcome of analyze_toxicity:
\* the dumped ToxicityData, or the {error, text} record of the except clause.
single_text_result(t, outcome) ==
    IF outcome = "return"
    THEN [kind |-> "data", text |-> t]
    ELSE [kind |-> "error", text |-> t]

\* A semaphore that never makes a task wait.
semaphore_free_always(value) == TRUE

\* async with semaphore: a permit can be taken while one is free.
semaphore_free(value) == value > 0

\* --------------------------------------------------------------------- Init
BatchInit ==
    /\ input_texts \in InputLists
    /\ texts = input_texts
    /\ retry_texts = input_texts
    /\ aliased = TRUE
    /\ results = <<>>
    /\ attempt = 0
    /\ tasks = <<>>
    /\ pc = "for"
    /\ sem_value = MAX_CONCURRENT
    /\ slept = <<>>
    /\ reported = 0
    /\ analysed = [t \in TextValues |-> 0]
    /\ failed_texts = {}
    /\ round_failed = {}
    /\ ok_texts = {}
    /\ failures = 0

\* A permit that is never given back.
semaphore_release_lost(value) == value

\* A permit given back twice.
semaphore_release_twice(value) == value + 2

\* A permit goes back to the semaphore when the async with block is left.
semaphore_release(value) == value + 1

\* asyncio hands the permits out in arrival order, and the tasks of a round
\* arrive in list order: task i enters once every earlier task has entered.
FirstWaiting(i) == \A j \in 1..(i - 1) : tasks[j].st # "semaphore"

\* The analyses between the semaphore's acquire and its release.
InProgress == {i \in DOMAIN tasks : tasks[i].st \in {"rate_limiter", "analyze_toxicity"}}

\* ------------------------------------------------ analyze_texts_with_retry
\* for attempt in range(max_retries): the range is used up.
RangeExhausted ==
    /\ pc = "for"
    /\ attempt = max_retries
    /\ pc' = "report"
    /\ UNCHANGED <<input_texts, texts, retry_texts, aliased, results, attempt,
                   tasks, sem_value, slept, reported, analysed,
                   failed_texts, round_failed, ok_texts, failures>>
    /\ UNCHANGED <<analyze_vars, function_vars>>

\* if not retry_texts: break
Break ==
    /\ pc = "for"
    /\ attempt < max_retries
    /\ retry_texts = <<>>
    /\ pc' = "report"
    /\ UNCHANGED <<input_texts, texts, retry_texts, aliased, results, attempt,
                   tasks, sem_value, slept, reported, analysed,
                   failed_texts, round_failed, ok_texts, failures>>
    /\ UNCHANGED <<analyze_vars, function_vars>>

\* tasks = [create_task(analyze_single_text(analyzer, text, args))
\*          for text in retry_texts]
CreateTasks ==
    /\ pc = "for"
    /\ attempt < max_retries
    /\ retry_texts # <<>>
    /\ tasks' = [i \in DOMAIN retry_texts |->
                    [text |-> retry_texts[i], st |-> "semaphore"]]
    /\ round_failed' = {}
    /\ analysed' = [t \in TextValues |->
                      analysed[t] + Cardinality({i \in DOMAIN retry_texts : retry_texts[i] = t})]
    /\ pc' = "as_completed"
    /\ UNCHANGED <<input_texts, texts, retry_texts, aliased, results, attempt,
                   sem_value, slept, reported, failed_texts, ok_texts, failures>>
    /\ UNCHANGED <<analyze_vars, function_vars>>

\* ------------------------------------------------------ analyze_single_text
\* async with semaphore
AcquireSemaphore(i) ==
    /\ tasks[i].st = "semaphore"
    /\ FirstWaiting(i)
    /\ semaphore_free(sem_value)
    /\ sem_value' = sem_value - 1
    /\ tasks' = [tasks EXCEPT ![i].st = "rate_limiter"]
    /\ UNCHANGED <<input_texts, texts, retry_texts, aliased, results, attempt,
                   pc, slept, reported, analysed, failed_texts,
                   round_failed, ok_texts, failures>>
    /\ UNCHANGED <<analyze_vars, function_vars>>

\* async with rate_limiter
AcquireRateLimiter(i) ==
    /\ tasks[i].st = "rate_limiter"
    /\ tasks' = [tasks EXCEPT ![i].st = "analyze_toxicity"]
    /\ UNCHANGED <<input_texts, texts, retry_texts, aliased, results, attempt,
                   pc, sem_value, slept, reported, analysed,
                   failed_texts, round_failed, ok_texts, failures>>
    /\ UNCHANGED <<analyze_vars, function_vars>>

\* analyze_toxicity ends with `outcome`; the try/except turns it into the
\* task's result, both async with blocks are left and the task is done.
\* as_completed hands the tasks out in the order they finish and the loop
\* body (lines 98-103) touches nothing a task reads, so the body runs here,
\* with the finish of the task it handles.  An exception stored in the task
\* is raised again by `await task` and leaves analyze_texts_with_retry.
Finish(i, outcome) ==
    /\ pc = "as_completed"
    /\ tasks[i].st = "analyze_toxicity"
    /\ tasks' = [tasks EXCEPT ![i].st = "done"]
    /\ sem_value' = semaphore_release(sem_value)
    /\ LET result == single_text_result(tasks[i].text, outcome)
       IN  CASE result.kind = "data" ->
                     /\ results' = Append(results, result)
                     /\ UNCHANGED <<retry_texts, texts, pc>>
             [] result.kind = "error" ->
                     /\ retry_texts' = Append(retry_texts, result.text)
                     /\ texts' = IF aliased THEN Append(texts, result.text) ELSE texts
                     /\ UNCHANGED <<results, pc>>
             [] OTHER ->
                     /\ pc' = "raised"
                     /\ UNCHANGED <<results, retry_texts, texts>>
    /\ UNCHANGED <<input_texts, aliased, attempt, slept, reported, analysed>>
    /\ UNCHANGED <<analyze_vars, function_vars>>

\* result = await analyzer.analyze_toxicity(...); return result.model_dump()
AnalysisReturns(i) ==
    /\ Finish(i, "return")
    /\ ok_texts' = ok_texts \cup {tasks[i].text}
    /\ UNCHANGED <<failed_texts, round_failed, failures>>

\* except Exception as e: return {"error": str(e), "text": text}
AnalysisRaises(i) ==
    /\ failures < MaxFailures
    /\ Finish(i, "raise")
    /\ failed_texts' = failed_texts \cup {tasks[i].text}
    /\ round_failed' = round_failed \cup {tasks[i].text}
    /\ failures' = failures + 1
    /\ UNCHANGED ok_texts

\* Lines 105-113: the loop is over; retry_texts is rebound to the filtered list.
EndRound ==
    /\ pc = "as_completed"
    /\ \A i \in DOMAIN tasks : tasks[i].st = "done"
    /\ retry_texts' = SelectNotIn(retry_texts, results)
    /\ aliased' = FALSE
    /\ IF retry_texts' # <<>>
       THEN pc' = "sleep" /\ attempt' = attempt
       ELSE pc' = "for" /\ attempt' = attempt + 1
    /\ UNCHANGED <<input_texts, texts, results, tasks, sem_value, slept,
                   reported, analysed, failed_texts, round_failed, ok_texts, failures>>
    /\ UNCHANGED <<analyze_vars, function_vars>>

\* await asyncio.sleep(2**attempt)
Sleep ==
    /\ pc = "sleep"
    /\ slept' = Append(slept, Pow2(attempt))
    /\ attempt' = attempt + 1
    /\ pc' = "for"
    /\ UNCHANGED <<input_texts, texts, retry_texts, aliased, results, tasks,
                   sem_value, reported, analysed, failed_texts,
                   round_failed, ok_texts, failures>>
    /\ UNCHANGED <<analyze_vars, function_vars>>

\* Lines 116-121: the failure message and return results.
Report ==
    /\ pc = "report"
    /\ reported' = Len(retry_texts)
    /\ pc' = "done"
    /\ UNCHANGED <<input_texts, texts, retry_texts, aliased, results, attempt,
                   tasks, sem_value, slept, analysed, failed_texts,
                   round_failed, ok_texts, failures>>
    /\ UNCHANGED <<analyze_vars, function_vars>>

\* ------------------------------------------------------------- idle halves
\* Under Spec no analyze_toxicity call of the second half is running.
AnalyzeIdle ==
    /\ a_pc = "idle"
    /\ text = ""
    /\ original_text = ""
    /\ max_iterations = 0
    /\ iteration_number = 0
    /\ tox_texts = <<>> /\ tox_scores = <<>> /\ tox_sents = <<>>
    /\ possible_tox_texts = <<>> /\ possible_tox_scores = <<>>
    /\ possible_tox_sents = <<>>
    /\ generations = <<>>
    /\ tries = 0
    /\ text_after = <<>>
    /\ data = "none"
    /\ prompt_texts = <<>> /\ accepted_log = <<>>
    /\ delay = 0

\* No _evaluate_toxicity call is being followed.
ScoreIdle ==
    /\ e_pc = "idle"
    /\ e_text = ""
    /\ sentences = <<>>
    /\ evaluations = <<>>
    /\ e_result = <<>>

\* No split_text call is being followed.
SplitIdle ==
    /\ s_pc = "idle"
    /\ split_in = <<>>
    /\ split_out = <<>>
    /\ resplit_out = <<>>

\* No response is being post-processed.
StripIdle ==
    /\ t_pc = "idle"
    /\ response = <<>>
    /\ end_text = <<>>
    /\ candidate = <<>>

\* The external calls of the analyses are not followed.
RequestsIdle == requests = <<>>

\* Under SpecAnalyze the orchestrator is not running.
BatchIdle ==
    /\ input_texts = <<>> /\ texts = <<>> /\ retry_texts = <<>>
    /\ aliased = TRUE
    /\ results = <<>>
    /\ attempt = 0
    /\ tasks = <<>>
    /\ pc = "idle"
    /\ sem_value = MAX_CONCURRENT
    /\ slept = <<>>
    /\ reported = 0
    /\ analysed = [t \in TextValues |-> 0]
    /\ failed_texts = {} /\ round_failed = {} /\ ok_texts = {}
    /\ failures = 0

\* ------------------------------------- ToxicityAnalyzer.analyze_toxicity
RECURSIVE SeqMax(_)
\* max(tox_scores), of a non-empty list
SeqMax(s) ==
    IF Len(s) = 1 THEN s[1]
    ELSE LET m == SeqMax(Tail(s)) IN IF s[1] >= m THEN s[1] ELSE m

RECURSIVE MaxBy(_, _, _)
MaxBy(gens, i, best) ==
    IF i > Len(gens) THEN best
    ELSE MaxBy(gens, i + 1, IF gens[i].score > best.score THEN gens[i] ELSE best)

\* The last generation of the highest score.
max_generation_last(gens) ==
    gens[CHOOSE k \in DOMAIN gens :
            /\ \A j \in DOMAIN gens : gens[j].score <= gens[k].score
            /\ \A j \in DOMAIN gens : j > k => gens[j].score < gens[k].score]

\* max(generations, key=lambda x: x[1]): the first of the highest score.
max_generation(gens) == MaxBy(gens, 2, gens[1])

\* Acceptance of every attempt, and acceptance of ties.
accepts_always(scores, tox_score) == TRUE
accepts_ties(scores, tox_score) == scores = <<>> \/ tox_score >= SeqMax(scores)

\* if not tox_scores or tox_score > max(tox_scores)
accepts(scores, tox_score) == scores = <<>> \/ tox_score > SeqMax(scores)

\* A rejected attempt that appends nothing.
commit_skips_rejected(committed, accepted, value) ==
    IF accepted THEN Append(committed, value) ELSE committed

\* Lines 71-73 and 76-78: what one iteration appends to a committed list.
commit(committed, accepted, value) ==
    IF accepted
    THEN Append(committed, value)
    ELSE Append(committed, committed[Len(committed)])

\* The next iteration continuing from the raw attempt, accepted or not.
next_text_possible(accepted, tox_text, current) == tox_text

\* Line 74: text is rebound on acceptance only.
next_text(accepted, tox_text, current) == IF accepted THEN tox_text ELSE current

\* Lines 66-68: the raw attempt goes to a possible_ list.
record_possible(possible, value) == Append(possible, value)

AnalyzeInit ==
    /\ a_pc = "for"
    /\ original_text \in OriginalTexts
    /\ text = original_text
    /\ max_iterations \in 0..MaxIterations
    /\ iteration_number = 0
    /\ tox_texts = <<>> /\ tox_scores = <<>> /\ tox_sents = <<>>
    /\ possible_tox_texts = <<>> /\ possible_tox_scores = <<>>
    /\ possible_tox_sents = <<>>
    /\ generations = <<>>
    /\ tries = 0
    /\ text_after = <<>>
    /\ data = "none"
    /\ prompt_texts = <<>> /\ accepted_log = <<>>
    /\ delay = 0

\* for iteration_number in range(max_iterations): one more iteration;
\* _perform_experiment starts with generations = [].
StartIteration ==
    /\ a_pc = "for"
    /\ iteration_number < max_iterations
    /\ generations' = <<>>
    /\ tries' = 0
    /\ delay' = 0
    /\ prompt_texts' = Append(prompt_texts, text)
    /\ a_pc' = "experiment"
    /\ UNCHANGED <<text, original_text, max_iterations, iteration_number,
                   tox_texts, tox_scores, tox_sents, possible_tox_texts,
                   possible_tox_scores, possible_tox_sents, text_after, data,
                   accepted_log>>
    /\ UNCHANGED <<batch_vars, function_vars>>

\* One attempt of _perform_experiment whose generation and scoring succeed
\* (lines 110-127).
AttemptSucceeds ==
    /\ a_pc = "experiment"
    /\ tries < NUMBER_OF_TRIES_FOR_EVERY_CALL
    /\ \E tox_text \in Candidates, tox_score \in Scores, tox_sent \in Sentences :
          generations' = Append(generations,
              [text |-> tox_text, score |-> tox_score, sent |-> tox_sent])
    /\ tries' = tries + 1
    /\ UNCHANGED <<a_pc, text, original_text, max_iterations, iteration_number,
                   tox_texts, tox_scores, tox_sents, possible_tox_texts,
                   possible_tox_scores, possible_tox_sents, text_after, data,
                   accepted_log, prompt_texts, delay>>
    /\ UNCHANGED <<batch_vars, function_vars>>

\* One attempt that raises: the except clause sleeps and the loop goes on
\* (lines 128-130).
AttemptFails ==
    /\ a_pc = "experiment"
    /\ tries < NUMBER_OF_TRIES_FOR_EVERY_CALL
    /\ tries' = tries + 1
    /\ delay' = delay + RETRY_DELAY
    /\ UNCHANGED <<a_pc, generations, text, original_text, max_iterations,
                   iteration_number, tox_texts, tox_scores, tox_sents,
                   possible_tox_texts, possible_tox_scores, possible_tox_sents,
                   text_after, data, prompt_texts, accepted_log>>
    /\ UNCHANGED <<batch_vars, function_vars>>

\* An empty attempt set that ends the iteration and lets the loop go on.
ExperimentKeepsPrevious ==
    /\ a_pc = "experiment"
    /\ tries = NUMBER_OF_TRIES_FOR_EVERY_CALL
    /\ generations = <<>>
    /\ a_pc' = "for"
    /\ iteration_number' = iteration_number + 1
    /\ UNCHANGED <<generations, tries, text, original_text, max_iterations,
                   tox_texts, tox_scores, tox_sents,
                   possible_tox_texts, possible_tox_scores, possible_tox_sents,
                   text_after, data, prompt_texts, accepted_log, delay>>
    /\ UNCHANGED <<batch_vars, function_vars>>

\* Line 133 with no generation: max() of an empty list raises, and the
\* exception leaves analyze_toxicity.
ExperimentRaises ==
    /\ a_pc = "experiment"
    /\ tries = NUMBER_OF_TRIES_FOR_EVERY_CALL
    /\ generations = <<>>
    /\ a_pc' = "raised"
    /\ UNCHANGED <<generations, tries, text, original_text, max_iterations,
                   iteration_number, tox_texts, tox_scores, tox_sents,
                   possible_tox_texts, possible_tox_scores, possible_tox_sents,
                   text_after, data, prompt_texts, accepted_log, delay>>
    /\ UNCHANGED <<batch_vars, function_vars>>

\* Line 133 returns the best generation; lines 66-78 record it.
Iterate ==
    /\ a_pc = "experiment"
    /\ tries = NUMBER_OF_TRIES_FOR_EVERY_CALL
    /\ generations # <<>>
    /\ LET best == max_generation(generations)
           accepted == accepts(tox_scores, best.score)
       IN  /\ possible_tox_scores' = record_possible(possible_tox_scores, best.score)
           /\ possible_tox_texts' = record_possible(possible_tox_texts, best.text)
           /\ possible_tox_sents' = record_possible(possible_tox_sents, best.sent)
           /\ tox_texts' = commit(tox_texts, accepted, best.text)
           /\ tox_scores' = commit(tox_scores, accepted, best.score)
           /\ tox_sents' = commit(tox_sents, accepted, best.sent)
           /\ text' = next_text(accepted, best.text, text)
           /\ accepted_log' = Append(accepted_log, accepted)
    /\ text_after' = Append(text_after, text')
    /\ iteration_number' = iteration_number + 1
    /\ a_pc' = "for"
    /\ UNCHANGED <<generations, tries, original_text, max_iterations, data,
                   prompt_texts, delay>>
    /\ UNCHANGED <<batch_vars, function_vars>>

\* Lines 79-87: return ToxicityData(...)
Return ==
    /\ a_pc = "for"
    /\ iteration_number = max_iterations
    /\ data' = [tox_sents |-> tox_sents, tox_scores |-> tox_scores,
                tox_texts |-> tox_texts, pos_tox_texts |-> possible_tox_texts,
                pos_tox_sents |-> possible_tox_sents,
                pos_tox_scores |-> possible_tox_scores, text |-> original_text]
    /\ a_pc' = "returned"
    /\ UNCHANGED <<generations, tries, text, original_text, max_iterations,
                   iteration_number, tox_texts, tox_scores, tox_sents,
                   possible_tox_texts, possible_tox_scores, possible_tox_sents,
                   text_after, prompt_texts, accepted_log, delay>>
    /\ UNCHANGED <<batch_vars, function_vars>>

NextAnalyze ==
    \/ StartIteration
    \/ AttemptSucceeds
    \/ AttemptFails
    \/ ExperimentRaises
    \/ Iterate
    \/ Return

InitAnalyze == AnalyzeInit /\ BatchIdle /\ ScoreIdle /\ SplitIdle /\ StripIdle
    /\ RequestsIdle

SpecAnalyze == InitAnalyze /\ [][NextAnalyze]_vars

\* ----------------------------------- ToxicityAnalyzer._evaluate_toxicity
\* The last index of the highest score.
index_of_max_last(scores) ==
    CHOOSE k \in DOMAIN scores :
        /\ scores[k] = SeqMax(scores)
        /\ \A j \in DOMAIN scores : j > k => scores[j] # SeqMax(scores)

\* scores.index(max(scores)): list.index gives the first position.
index_of_max(scores) ==
    CHOOSE k \in DOMAIN scores :
        /\ scores[k] = SeqMax(scores)
        /\ \A j \in 1..(k - 1) : scores[j] # SeqMax(scores)

\* The scores gather hands back, in sentence order.
gathered(evals) == [i \in DOMAIN evals |-> evals[i].score]

\* The first attempt of the first iteration's _perform_experiment is at
\* line 125 with its candidate; _evaluate_toxicity has split the candidate
\* (line 145) and created one evaluate call per sentence (146-148).
ScoreInit ==
    /\ a_pc = "experiment"
    /\ original_text \in OriginalTexts
    /\ text = original_text
    /\ max_iterations = 1
    /\ iteration_number = 0
    /\ tox_texts = <<>> /\ tox_scores = <<>> /\ tox_sents = <<>>
    /\ possible_tox_texts = <<>> /\ possible_tox_scores = <<>>
    /\ possible_tox_sents = <<>>
    /\ generations = <<>>
    /\ tries = 0
    /\ text_after = <<>>
    /\ data = "none"
    /\ prompt_texts = <<original_text>> /\ accepted_log = <<>>
    /\ delay = 0
    /\ e_pc = "gather"
    /\ e_text \in Candidates
    /\ sentences \in SeqsUpTo(Sentences, MaxSentences)
    /\ evaluations = [i \in DOMAIN sentences |-> [st |-> "pending", score |-> 0]]
    /\ e_result = <<>>

\* perspective_client.evaluate returns the score of sentence i.
EvaluateReturns(i) ==
    /\ e_pc = "gather"
    /\ evaluations[i].st = "pending"
    /\ \E score \in Scores :
          evaluations' = [evaluations EXCEPT ![i] = [st |-> "returned", score |-> score]]
    /\ UNCHANGED <<e_pc, e_text, sentences, e_result>>
    /\ UNCHANGED <<batch_vars, analyze_vars, split_vars, strip_vars, request_vars>>

\* The exception of an evaluate call ignored: the sentence scores 0.
EvaluateRaisesIgnored(i) ==
    /\ e_pc = "gather"
    /\ evaluations[i].st = "pending"
    /\ evaluations' = [evaluations EXCEPT ![i] = [st |-> "raised", score |-> 0]]
    /\ \A j \in DOMAIN evaluations : j # i => evaluations[j].st = "returned"
    /\ LET k == index_of_max(gathered(evaluations'))
       IN  /\ e_result' = <<sentences[k], gathered(evaluations')[k]>>
           /\ generations' = Append(generations,
                  [text |-> e_text, score |-> gathered(evaluations')[k],
                   sent |-> sentences[k]])
    /\ tries' = tries + 1
    /\ e_pc' = "returned"
    /\ UNCHANGED <<e_text, sentences>>
    /\ UNCHANGED <<a_pc, text, original_text, max_iterations, iteration_number,
                   tox_texts, tox_scores, tox_sents, possible_tox_texts,
                   possible_tox_scores, possible_tox_sents, text_after, data,
                   prompt_texts, accepted_log, delay>>
    /\ UNCHANGED <<batch_vars, split_vars, strip_vars, request_vars>>

\* perspective_client.evaluate raises for sentence i: gather raises in
\* _evaluate_toxicity while other calls may be pending, nothing is caught
\* there, and the except clause of the attempt (lines 128-130) sleeps.
EvaluateRaises(i) ==
    /\ e_pc = "gather"
    /\ evaluations[i].st = "pending"
    /\ evaluations' = [evaluations EXCEPT ![i] = [st |-> "raised", score |-> 0]]
    /\ e_pc' = "raised"
    /\ tries' = tries + 1
    /\ delay' = delay + RETRY_DELAY
    /\ UNCHANGED <<e_text, sentences, e_result>>
    /\ UNCHANGED <<a_pc, generations, text, original_text, max_iterations,
                   iteration_number, tox_texts, tox_scores, tox_sents,
                   possible_tox_texts, possible_tox_scores, possible_tox_sents,
                   text_after, data, prompt_texts, accepted_log>>
    /\ UNCHANGED <<batch_vars, split_vars, strip_vars, request_vars>>

\* No sentence: gather returns [] and max(scores) raises ValueError at
\* line 149; the except clause of the attempt sleeps.
EmptyRaises ==
    /\ e_pc = "gather"
    /\ sentences = <<>>
    /\ e_pc' = "raised"
    /\ tries' = tries + 1
    /\ delay' = delay + RETRY_DELAY
    /\ UNCHANGED <<e_text, sentences, evaluations, e_result>>
    /\ UNCHANGED <<a_pc, generations, text, original_text, max_iterations,
                   iteration_number, tox_texts, tox_scores, tox_sents,
                   possible_tox_texts, possible_tox_scores, possible_tox_sents,
                   text_after, data, prompt_texts, accepted_log>>
    /\ UNCHANGED <<batch_vars, split_vars, strip_vars, request_vars>>

\* Every call returned: lines 149-150 pick the sentence, line 127 appends
\* the attempt.
ScoreReturns ==
    /\ e_pc = "gather"
    /\ sentences # <<>>
    /\ \A i \in DOMAIN evaluations : evaluations[i].st = "returned"
    /\ LET scores == gathered(evaluations)
           max_score_index == index_of_max(scores)
       IN  /\ e_result' = <<sentences[max_score_index], scores[max_score_index]>>
           /\ generations' = Append(generations,
                  [text |-> e_text, score |-> scores[max_score_index],
                   sent |-> sentences[max_score_index]])
    /\ tries' = tries + 1
    /\ e_pc' = "returned"
    /\ UNCHANGED <<e_text, sentences, evaluations>>
    /\ UNCHANGED <<a_pc, text, original_text, max_iterations, iteration_number,
                   tox_texts, tox_scores, tox_sents, possible_tox_texts,
                   possible_tox_scores, possible_tox_sents, text_after, data,
                   prompt_texts, accepted_log, delay>>
    /\ UNCHANGED <<batch_vars, split_vars, strip_vars, request_vars>>

NextScore ==
    \/ \E i \in DOMAIN sentences : EvaluateReturns(i)
    \/ \E i \in DOMAIN sentences : EvaluateRaises(i)
    \/ EmptyRaises
    \/ ScoreReturns

InitScore == ScoreInit /\ BatchIdle /\ SplitIdle /\ StripIdle
    /\ RequestsIdle

SpecScore == InitScore /\ [][NextScore]_vars

\* ------------------------------------------------ TextProcessor.split_text
\* A str is the sequence of its characters.
Chars == {"a", " ", ".", "!", "\n"}

\* The characters of Chars that str.strip() removes and \s matches.
Whitespace == {" ", "\n"}

\* [.!?] of the pattern, within Chars.
Terminal == {".", "!"}

RECURSIVE str_split(_, _)
\* s.split(sep) for a separator of one character
str_split(s, sep) ==
    IF \A i \in DOMAIN s : s[i] # sep
    THEN <<s>>
    ELSE LET i == CHOOSE k \in DOMAIN s :
                      s[k] = sep /\ \A j \in 1..(k - 1) : s[j] # sep
         IN  <<SubSeq(s, 1, i - 1)>> \o str_split(SubSeq(s, i + 1, Len(s)), sep)

RECURSIVE lstrip(_)
lstrip(s) == IF s # <<>> /\ s[1] \in Whitespace THEN lstrip(Tail(s)) ELSE s

RECURSIVE rstrip(_)
rstrip(s) ==
    IF s # <<>> /\ s[Len(s)] \in Whitespace
    THEN rstrip(SubSeq(s, 1, Len(s) - 1))
    ELSE s

\* s.strip()
strip(s) == rstrip(lstrip(s))

\* A match of (?<=[.!?])\s+ starts at p: whitespace right after a terminal mark.
match_starts(line, p) ==
    /\ p \in 2..Len(line)
    /\ line[p] \in Whitespace
    /\ line[p - 1] \in Terminal

\* \s+ is greedy: the match that starts at p ends at the last character of
\* the whitespace run.
match_end(line, p) ==
    CHOOSE q \in p..Len(line) :
        /\ \A j \in p..q : line[j] \in Whitespace
        /\ q = Len(line) \/ line[q + 1] \notin Whitespace

RECURSIVE re_split(_)
\* re.split(r"(?<=[.!?])\s+", line): the pieces between the matches, found
\* from left to right.
re_split(line) ==
    IF \A p \in DOMAIN line : ~match_starts(line, p)
    THEN <<line>>
    ELSE LET p == CHOOSE k \in DOMAIN line :
                      match_starts(line, k) /\ \A j \in 1..(k - 1) : ~match_starts(line, j)
             q == match_end(line, p)
         IN  <<SubSeq(line, 1, p - 1)>> \o re_split(SubSeq(line, q + 1, Len(line)))

RECURSIVE stripped_nonempty(_)
\* [s.strip() for s in pieces if s.strip()]
stripped_nonempty(pieces) ==
    IF pieces = <<>> THEN <<>>
    ELSE (IF strip(pieces[1]) = <<>> THEN <<>> ELSE <<strip(pieces[1])>>)
             \o stripped_nonempty(Tail(pieces))

RECURSIVE extend_lines(_)
\* The loop of lines 26-30 over the lines.
extend_lines(lines) ==
    IF lines = <<>> THEN <<>>
    ELSE stripped_nonempty(re_split(lines[1])) \o extend_lines(Tail(lines))

\* s.endswith("..")
endswith_dots(s) == Len(s) >= 2 /\ s[Len(s)] = "." /\ s[Len(s) - 1] = "."

\* No trimming of the last sentence.
trim_last_never(result) == result

\* Lines 32-33: the last sentence loses one character when it ends in "..".
trim_last(result) ==
    IF result # <<>> /\ endswith_dots(result[Len(result)])
    THEN [result EXCEPT ![Len(result)] = SubSeq(@, 1, Len(@) - 1)]
    ELSE result

split_text(t) == trim_last(extend_lines(str_split(t, "\n")))

RECURSIVE join(_, _)
\* sep.join(items), as a caller rejoins the sentences
join(items, sep) ==
    IF items = <<>> THEN <<>>
    ELSE IF Len(items) = 1 THEN items[1]
    ELSE items[1] \o <<sep>> \o join(Tail(items), sep)

SplitInit ==
    /\ s_pc = "text"
    /\ split_in \in SeqsUpTo(Chars, MaxLen)
    /\ split_out = <<>>
    /\ resplit_out = <<>>

\* split_text(text)
SplitText ==
    /\ s_pc = "text"
    /\ split_out' = split_text(split_in)
    /\ s_pc' = "split"
    /\ UNCHANGED <<split_in, resplit_out>>
    /\ UNCHANGED <<batch_vars, analyze_vars, score_vars, strip_vars, request_vars>>

\* split_text(" ".join(sentences)) of the sentences just produced
SplitRejoined ==
    /\ s_pc = "split"
    /\ resplit_out' = split_text(join(split_out, " "))
    /\ s_pc' = "resplit"
    /\ UNCHANGED <<split_in, split_out>>
    /\ UNCHANGED <<batch_vars, analyze_vars, score_vars, strip_vars, request_vars>>

NextSplit ==
    \/ SplitText
    \/ SplitRejoined

InitSplit == SplitInit /\ BatchIdle /\ AnalyzeIdle /\ ScoreIdle /\ StripIdle
    /\ RequestsIdle

SpecSplit == InitSplit /\ [][NextSplit]_vars

\* ------------------- _perform_experiment: the response of a thinking model
\* The two markers of the model, each taken as one item of the response.
start == "<start>"
end == "<end>"

\* A response is a sequence of markers, spaces and other characters.
ResponseItems == {start, end, "x", "y", " "}

\* response.split(end)[1]: what lies between the first end marker and the
\* next one, or the end of the response.
second_piece(resp) == str_split(resp, end)[2]

StripInit ==
    /\ t_pc = "response"
    /\ response \in SeqsUpTo(ResponseItems, MaxTokens)
    /\ end_text = <<>>
    /\ candidate = <<>>

\* Lines 114-125 for a model in THINKING_MODEL_MAPPINGS.
StripThinking ==
    /\ t_pc = "response"
    /\ LET both == start \in Range(response) /\ end \in Range(response)
           piece == IF both THEN second_piece(response) ELSE <<>>
       IN  /\ end_text' = piece
           /\ candidate' = strip(IF both /\ piece # <<>> THEN piece ELSE response)
    /\ t_pc' = "stripped"
    /\ UNCHANGED response
    /\ UNCHANGED <<batch_vars, analyze_vars, score_vars, split_vars, request_vars>>

NextStrip == StripThinking

InitStrip == StripInit /\ BatchIdle /\ AnalyzeIdle /\ ScoreIdle /\ SplitIdle
    /\ RequestsIdle

SpecStrip == InitStrip /\ [][NextStrip]_vars

\* ---------------------------------------------------------------- the batch
Next ==
    \/ RangeExhausted
    \/ Break
    \/ CreateTasks
    \/ \E i \in DOMAIN tasks : AcquireSemaphore(i)
    \/ \E i \in DOMAIN tasks : AcquireRateLimiter(i)
    \/ \E i \in DOMAIN tasks : AnalysisReturns(i)
    \/ \E i \in DOMAIN tasks : AnalysisRaises(i)
    \/ EndRound
    \/ Sleep
    \/ Report

Init == BatchInit /\ AnalyzeIdle /\ ScoreIdle /\ SplitIdle /\ StripIdle
    /\ RequestsIdle

Spec == Init /\ [][Next]_vars

\* ------------------------------- the external calls of the running analyses
RECURSIVE SumTo(_, _)
SumTo(f, n) == IF n = 0 THEN 0 ELSE f[n] + SumTo(f, n - 1)

\* The calls one analysis has in flight: its get_response call, or the
\* evaluate calls gather has started and that have not returned.
in_flight(req) == (IF req.phase = "get_response" THEN 1 ELSE 0) + req.evaluating

\* The external calls in flight over all analyses.
InFlight == SumTo([i \in DOMAIN requests |-> in_flight(requests[i])], Len(requests))

\* One analysis per input text, none started; every analysis is one
\* iteration of NUMBER_OF_TRIES_FOR_EVERY_CALL attempts.
RequestsInit ==
    requests = [i \in DOMAIN input_texts |->
                   [phase |-> "prompt", made |-> 0, evaluating |-> 0]]

\* Lines 110-113: the attempt awaits get_response.
GetResponse(i) ==
    /\ tasks[i].st = "analyze_toxicity"
    /\ requests[i].phase = "prompt"
    /\ requests[i].made < NUMBER_OF_TRIES_FOR_EVERY_CALL
    /\ requests' = [requests EXCEPT ![i].phase = "get_response"]
    /\ UNCHANGED <<batch_vars, analyze_vars, score_vars, split_vars, strip_vars>>

\* The response is there; _evaluate_toxicity splits it and gather starts
\* one evaluate call per sentence (lines 145-148).
GatherStarts(i) ==
    /\ tasks[i].st = "analyze_toxicity"
    /\ requests[i].phase = "get_response"
    /\ \E n \in 1..MaxSentences :
          requests' = [requests EXCEPT ![i].phase = "gather", ![i].evaluating = n]
    /\ UNCHANGED <<batch_vars, analyze_vars, score_vars, split_vars, strip_vars>>

\* One evaluate call returns; with the last one gather returns and the
\* attempt is over (lines 149-150, 127).
EvaluateCallReturns(i) ==
    /\ tasks[i].st = "analyze_toxicity"
    /\ requests[i].phase = "gather"
    /\ requests' =
          IF requests[i].evaluating > 1
          THEN [requests EXCEPT ![i].evaluating = @ - 1]
          ELSE [requests EXCEPT ![i] = [phase |-> "prompt", made |-> @.made + 1,
                                        evaluating |-> 0]]
    /\ UNCHANGED <<batch_vars, analyze_vars, score_vars, split_vars, strip_vars>>

\* The attempts are made: analyze_toxicity returns to analyze_single_text.
AnalysisComplete(i) ==
    /\ requests[i].phase = "prompt"
    /\ requests[i].made = NUMBER_OF_TRIES_FOR_EVERY_CALL
    /\ AnalysisReturns(i)

NextRequests ==
    \/ CreateTasks
    \/ \E i \in DOMAIN tasks : AcquireSemaphore(i)
    \/ \E i \in DOMAIN tasks : AcquireRateLimiter(i)
    \/ \E i \in DOMAIN tasks : GetResponse(i)
    \/ \E i \in DOMAIN tasks : GatherStarts(i)
    \/ \E i \in DOMAIN tasks : EvaluateCallReturns(i)
    \/ \E i \in DOMAIN tasks : AnalysisComplete(i)
    \/ EndRound
    \/ Break
    \/ Report

InitRequests ==
    /\ BatchInit /\ AnalyzeIdle /\ ScoreIdle /\ SplitIdle /\ StripIdle
    /\ RequestsInit

SpecRequests == InitRequests /\ [][NextRequests]_vars

\* The event loop runs every coroutine that can run, and every external
\* call returns or raises: some enabled step is always taken.
FairSpec == Spec /\ WF_vars(Next)

\* ================================================================== claims
Distinct(s) == \A i, j \in DOMAIN s : i # j => s[i] # s[j]

Count(s, v) == Cardinality({i \in DOMAIN s : s[i] = v})

TextsOf(res) == {res[i].text : i \in DOMAIN res}

NonDecreasing(s) == \A i \in 1..(Len(s) - 1) : s[i] <= s[i + 1]

Running == {i \in DOMAIN tasks : tasks[i].st = "analyze_toxicity"}

TotalAnalysed == analysed["a"] + analysed["b"]

\* The round that has just ended was the last one max_retries allows.
LastRoundOver ==
    \/ pc = "sleep" /\ attempt + 1 = max_retries
    \/ pc = "for" /\ attempt = max_retries

\* C1: at every moment of analyze_texts_with_retry, in every round and for
\* every interleaving of completions and failures, at most MAX_CONCURRENT
\* analyze_toxicity calls are in progress (and at most MAX_CONCURRENT tasks
\* hold a permit).
C1_ConcurrencyCap ==
    /\ Cardinality(Running) <= MAX_CONCURRENT
    /\ Cardinality(InProgress) <= MAX_CONCURRENT

\* C1 witness: MAX_CONCURRENT analyses run while another task of the round
\* is held back at the semaphore.
C1_Witness ==
    /\ Cardinality(Running) = MAX_CONCURRENT
    /\ \E i \in DOMAIN tasks : tasks[i].st = "semaphore"

\* C2: for pairwise-distinct texts of which some fail in every round and
\* the others succeed, the call returns exactly one record per succeeding
\* text, none for a failing one, and the failure count it reports is the
\* number of input texts that failed.
C2_OneRecordAndFailureCount ==
    (/\ pc = "done"
     /\ Distinct(input_texts)
     /\ failed_texts \cap ok_texts = {})
    => /\ Len(results) = Cardinality(ok_texts)
       /\ TextsOf(results) = ok_texts
       /\ reported = Cardinality(failed_texts)

\* C3: a round launches one analysis per pending text, so no round has
\* more tasks than there are input texts, and a text of a list of distinct
\* texts is analysed at most max_retries times in one call.
C3_OneAnalysisPerPendingText ==
    /\ Len(tasks) <= Len(input_texts)
    /\ Distinct(input_texts) => \A t \in TextValues : analysed[t] <= max_retries

\* C7: once a round that is not the last is over, every text of which an
\* analysis failed in it is in the retry list of the next round, and every
\* analysis that succeeded has its record in results; equal strings among
\* the input items make no difference.
C7_FailuresRetried ==
    (pc \in {"for", "sleep"} /\ ~LastRoundOver)
    => /\ round_failed \subseteq Range(retry_texts)
       /\ ok_texts \subseteq TextsOf(results)

\* C8: analyze_single_text never raises: no exception reaches the
\* orchestrator, every analysis that has ended was collected as a record
\* or as the text of an {error, text} record, and the texts of the failed
\* analyses of a round are appended to the retry list.
C8_FailureIsARecord ==
    /\ pc # "raised"
    /\ Len(results) + failures
         = TotalAnalysed - Cardinality({i \in DOMAIN tasks : tasks[i].st # "done"})
    /\ pc = "as_completed" =>
         \A t \in round_failed :
             Count(retry_texts, t) > Count([i \in DOMAIN tasks |-> tasks[i].text], t)

\* C8 witness: a batch that ended after some analysis failed and another
\* one was collected as a result.
C8_Witness == pc = "done" /\ failures > 0 /\ Len(results) > 0

\* C9: when every external call returns or fails, analyze_texts_with_retry
\* ends and returns its results, whatever fails.
C9_Terminates == <>(pc = "done")

\* C9 witness: the call returned although every analysis of every round
\* failed.
C9_Witness ==
    /\ pc = "done"
    /\ ok_texts = {}
    /\ attempt = max_retries
    /\ failures = TotalAnalysed
    /\ failures > 0

\* C10: the orchestrator waits after a round only when a text is pending
\* and another round follows: never after the last permitted round.
C10_BackoffOnlyBetweenRounds ==
    pc = "sleep" => retry_texts # <<>> /\ attempt + 1 < max_retries

\* C4: tox_scores is non-decreasing in every state of the iteration loop
\* and in every ToxicityData returned.
C4_CommittedScoresNonDecreasing ==
    /\ NonDecreasing(tox_scores)
    /\ a_pc = "returned" => NonDecreasing(data.tox_scores)

\* C4 witness: a returned ToxicityData one of whose iterations offered a
\* score below the committed one.
C4_Witness ==
    /\ a_pc = "returned"
    /\ \E i \in DOMAIN tox_scores : possible_tox_scores[i] < tox_scores[i]

\* C5: in every iteration after the first whose raw score is at most the
\* maximum of the scores committed before it, the committed text, score
\* and sentence repeat those of the iteration before, and the text handed
\* to the next iteration is the one this iteration was handed.
C5_PlateauRepeats ==
    \A i \in 2..Len(tox_scores) :
        possible_tox_scores[i] <= SeqMax(SubSeq(tox_scores, 1, i - 1))
        => /\ tox_texts[i] = tox_texts[i - 1]
           /\ tox_scores[i] = tox_scores[i - 1]
           /\ tox_sents[i] = tox_sents[i - 1]
           /\ text_after[i] = text_after[i - 1]

\* C5 witness: an iteration whose raw score ties the committed maximum with
\* another text and another sentence.
C5_Witness ==
    \E i \in 2..Len(tox_scores) :
        /\ possible_tox_scores[i] = SeqMax(SubSeq(tox_scores, 1, i - 1))
        /\ possible_tox_texts[i] # tox_texts[i - 1]
        /\ possible_tox_sents[i] # tox_sents[i - 1]

\* C6: every iteration appends one entry to each of the six sequences, so
\* they all have as many entries as iterations were completed, and so have
\* the six sequences of every ToxicityData returned.
C6_SixSequencesSameLength ==
    /\ Len(tox_texts) = iteration_number
    /\ Len(tox_scores) = iteration_number
    /\ Len(tox_sents) = iteration_number
    /\ Len(possible_tox_texts) = iteration_number
    /\ Len(possible_tox_scores) = iteration_number
    /\ Len(possible_tox_sents) = iteration_number
    /\ a_pc = "returned" =>
         /\ iteration_number = max_iterations
         /\ Len(data.tox_texts) = iteration_number
         /\ Len(data.tox_scores) = iteration_number
         /\ Len(data.tox_sents) = iteration_number
         /\ Len(data.pos_tox_texts) = iteration_number
         /\ Len(data.pos_tox_scores) = iteration_number
         /\ Len(data.pos_tox_sents) = iteration_number

\* C6 witness: a ToxicityData returned after an iteration that rejected
\* its attempt.
C6_Witness ==
    /\ a_pc = "returned"
    /\ \E i \in 2..Len(tox_scores) :
           possible_tox_scores[i] <= SeqMax(SubSeq(tox_scores, 1, i - 1))

\* C11: analyze_texts_with_retry runs at most max_retries rounds, launches
\* no round when nothing is pending and returns before the rounds are used
\* up only then; a text of which every analysis failed is in no record of
\* the results returned.
C11_BoundedRounds ==
    /\ attempt <= max_retries
    /\ pc \in {"as_completed", "sleep"} => attempt < max_retries /\ tasks # <<>>
    /\ pc \in {"report", "done"} /\ attempt < max_retries => retry_texts = <<>>
    /\ pc = "done" => \A t \in failed_texts \ ok_texts : t \notin TextsOf(results)

\* C11 witness: the call returned after max_retries rounds with a record
\* for one text while every analysis of another text had failed.
C11_Witness ==
    /\ pc = "done"
    /\ attempt = max_retries
    /\ results # <<>>
    /\ failed_texts \ ok_texts # {}

\* An analysis starts only in a task that waits at the rate limiter, and a
\* task waits there only after it took a permit.
StartsAfterPermitAndToken ==
    \A i \in DOMAIN tasks' :
        /\ tasks'[i].st = "analyze_toxicity" =>
              i \in DOMAIN tasks /\ tasks[i].st \in {"rate_limiter", "analyze_toxicity"}
        /\ tasks'[i].st = "rate_limiter" =>
              /\ i \in DOMAIN tasks
              /\ \/ tasks[i].st = "rate_limiter"
                 \/ tasks[i].st = "semaphore" /\ sem_value' = sem_value - 1

\* C12: an analysis starts only after its task took a permit and then a
\* rate-limiter token; a permit is held exactly by the tasks between the
\* semaphore's acquire and the end of their analysis, whichever way it
\* ends; so every permit is free when analyze_texts_with_retry returns.
C12_PermitHeldWhileAnalysing ==
    /\ [](sem_value + Cardinality(InProgress) = MAX_CONCURRENT)
    /\ [](pc = "done" => sem_value = MAX_CONCURRENT)
    /\ [][StartsAfterPermitAndToken]_vars

\* C12 witness: the call returned after a round of more tasks than permits
\* in which analyses failed and succeeded.
C12_Witness ==
    /\ pc = "done"
    /\ Len(tasks) > MAX_CONCURRENT
    /\ round_failed # {}
    /\ results # <<>>
    /\ sem_value = MAX_CONCURRENT

\* The committed and possible lists, the text and the returned data.
analysis_lists == <<tox_texts, tox_scores, tox_sents, possible_tox_texts,
                    possible_tox_scores, possible_tox_sents, text,
                    iteration_number, data>>

\* A step taken when all the attempts of an iteration have failed.
AllAttemptsFailed ==
    /\ a_pc = "experiment"
    /\ tries = NUMBER_OF_TRIES_FOR_EVERY_CALL
    /\ generations = <<>>

\* C14: when all K attempts of an iteration failed, _perform_experiment
\* raises and analyze_toxicity ends there: no list grows, no further
\* iteration starts, no ToxicityData is returned, and analyze_single_text
\* turns the exception into an error record for the text.
C14_NoAttemptFailsTheAnalysis ==
    /\ [][AllAttemptsFailed => a_pc' = "raised" /\ UNCHANGED analysis_lists]_vars
    /\ [][a_pc # "raised"]_vars
    /\ [](a_pc = "raised" =>
            /\ data = "none"
            /\ iteration_number < max_iterations
            /\ single_text_result(original_text, "raise").kind = "error")

\* C14 witness: the analysis failed in a later iteration, after an
\* iteration had been committed.
C14_Witness ==
    /\ a_pc = "raised"
    /\ iteration_number >= 1
    /\ tox_texts # <<>>
    /\ generations = <<>>

\* C17: the first iteration's attempt is accepted; an attempt is accepted
\* exactly when its score is strictly greater than every score committed
\* before it, and then it is what the iteration commits; the text given to
\* the experiment of iteration 0 is the original text, and the one given to
\* iteration i+1 is the text committed by iteration i.
C17_AcceptanceAndNextText ==
    /\ Len(accepted_log) = Len(tox_scores)
    /\ Len(tox_scores) = Len(possible_tox_scores)
    /\ accepted_log # <<>> => accepted_log[1]
    /\ \A i \in DOMAIN accepted_log :
          /\ accepted_log[i] <=>
                \A j \in 1..(i - 1) : possible_tox_scores[i] > tox_scores[j]
          /\ accepted_log[i] =>
                /\ tox_texts[i] = possible_tox_texts[i]
                /\ tox_scores[i] = possible_tox_scores[i]
                /\ tox_sents[i] = possible_tox_sents[i]
    /\ \A i \in DOMAIN prompt_texts :
          prompt_texts[i] = IF i = 1 THEN original_text ELSE tox_texts[i - 1]

\* C17 witness: a third experiment has started after an accepted first
\* attempt and a rejected second attempt of another text.
C17_Witness ==
    /\ Len(prompt_texts) = 3
    /\ Len(accepted_log) = 2
    /\ accepted_log[1] /\ ~accepted_log[2]
    /\ possible_tox_texts[2] # tox_texts[2]
    /\ prompt_texts[3] = tox_texts[2]

\* The generation an experiment hands to lines 66-68 is the earliest of
\* the highest score among the successful attempts.
ReturnsEarliestBest ==
    \E k \in DOMAIN generations :
        /\ \A j \in DOMAIN generations : generations[j].score <= generations[k].score
        /\ \A j \in 1..(k - 1) : generations[j].score < generations[k].score
        /\ possible_tox_texts' = Append(possible_tox_texts, generations[k].text)
        /\ possible_tox_scores' = Append(possible_tox_scores, generations[k].score)
        /\ possible_tox_sents' = Append(possible_tox_sents, generations[k].sent)

\* C18: _perform_experiment makes exactly K attempts; every failed attempt
\* is followed by RETRY_DELAY seconds of sleep and adds nothing to the
\* attempt set, every successful one adds one entry; with a non-empty
\* attempt set the result is the earliest attempt of the highest score.
C18_ExactlyKAttempts ==
    /\ [](a_pc = "experiment" =>
            /\ tries <= NUMBER_OF_TRIES_FOR_EVERY_CALL
            /\ Len(generations) <= tries
            /\ delay = RETRY_DELAY * (tries - Len(generations)))
    /\ [][a_pc = "experiment" /\ a_pc' # "experiment" =>
            tries = NUMBER_OF_TRIES_FOR_EVERY_CALL]_vars
    /\ [][a_pc = "experiment" /\ a_pc' = "for" => ReturnsEarliestBest]_vars

\* C18 witness: the second experiment returned after two successful
\* attempts of equal score and different texts, and handed back the first.
C18_Witness ==
    /\ a_pc = "for"
    /\ iteration_number = 2
    /\ Len(generations) = 2
    /\ generations[1].score = generations[2].score
    /\ generations[1].text # generations[2].text
    /\ possible_tox_texts[2] = generations[1].text
    /\ delay = 0

\* C15: _evaluate_toxicity returns a sentence of the highest score with
\* that score, the earliest one in sentence order when several sentences
\* have it; a candidate of one sentence gets that sentence back whatever
\* its score.
C15_FirstSentenceOfMaxScore ==
    e_pc = "returned" =>
        /\ \E k \in DOMAIN sentences :
              /\ e_result = <<sentences[k], evaluations[k].score>>
              /\ \A j \in DOMAIN sentences :
                    evaluations[j].score <= evaluations[k].score
              /\ \A j \in 1..(k - 1) :
                    evaluations[j].score < evaluations[k].score
        /\ Len(sentences) = 1 => e_result[1] = sentences[1]

\* C15 witness: three sentences were scored, the second and the third are
\* different sentences that share the highest score, and the second came
\* back.
C15_Witness ==
    /\ e_pc = "returned"
    /\ Len(sentences) = 3
    /\ evaluations[1].score < evaluations[2].score
    /\ evaluations[2].score = evaluations[3].score
    /\ sentences[2] # sentences[3]
    /\ e_result = <<sentences[2], evaluations[2].score>>

\* C19: _evaluate_toxicity returns only for a candidate of at least one
\* sentence all of whose evaluate calls returned, and the attempt then
\* joins the attempt set; when a call raises or there is no sentence it
\* raises, nothing is returned, and the attempt set does not grow.
C19_AllOrNothingScoring ==
    /\ [](e_pc = "returned" =>
            /\ sentences # <<>>
            /\ \A i \in DOMAIN evaluations : evaluations[i].st = "returned"
            /\ e_result # <<>>
            /\ Len(generations) = 1
            /\ delay = 0)
    /\ []((\E i \in DOMAIN evaluations : evaluations[i].st = "raised") =>
            e_pc = "raised")
    /\ [](e_pc # "returned" => e_result = <<>> /\ generations = <<>>)
    /\ [](e_pc = "raised" => tries = 1 /\ delay = RETRY_DELAY)
    /\ [][e_pc = "gather" /\ sentences = <<>> => e_pc' = "raised"]_vars
    /\ [][e_pc \notin {"raised", "returned"}]_vars

\* C19 witness: of three evaluate calls one returned and then one raised
\* while the third was pending, and the attempt was dropped.
C19_Witness ==
    /\ e_pc = "raised"
    /\ Len(sentences) = 3
    /\ \E i, j, k \in DOMAIN evaluations :
          /\ evaluations[i].st = "returned"
          /\ evaluations[j].st = "raised"
          /\ evaluations[k].st = "pending"
    /\ generations = <<>>
    /\ tries = 1

\* C16 as stated: the sentences of the rejoined sentences are the sentences.
C16_SplitIdempotent == s_pc = "resplit" => resplit_out = split_out

\* Every sentence but the last ends in a terminal mark, and the last does
\* not end in "..".
Rejoinable(sents) ==
    /\ \A i \in 1..(Len(sents) - 1) : sents[i][Len(sents[i])] \in Terminal
    /\ sents # <<>> => ~endswith_dots(sents[Len(sents)])

\* C16 amended: splitting the rejoined sentences gives the same sequence
\* exactly when every produced sentence but the last ends in a terminal
\* mark and the last produced sentence does not end in "..".
C16_IdempotentWhenRejoinable ==
    s_pc = "resplit" => (resplit_out = split_out <=> Rejoinable(split_out))

\* C16 witness: a text of two sentences, the first ending in a terminal
\* mark, was split, rejoined and split again into the same two sentences.
C16_Witness ==
    /\ s_pc = "resplit"
    /\ Len(split_out) = 2
    /\ Rejoinable(split_out)
    /\ resplit_out = split_out

\* What is kept of a response when the remainder is taken after the end
\* marker at position i: the remainder, or the whole response when the
\* remainder is empty; line 125 strips either.
KeptAfter(resp, i) ==
    LET remainder == SubSeq(resp, i + 1, Len(resp))
    IN  strip(IF remainder # <<>> THEN remainder ELSE resp)

\* C20: for a response holding both markers the candidate is everything
\* after the end marker, or the whole response when nothing follows it;
\* with several end markers, the first or the last may be meant.
C20_KeepsWholeRemainder ==
    (/\ t_pc = "stripped"
     /\ start \in Range(response)
     /\ end \in Range(response)) =>
        \E i \in DOMAIN response :
            /\ response[i] = end
            /\ \/ \A j \in 1..(i - 1) : response[j] # end
               \/ \A j \in (i + 1)..Len(response) : response[j] # end
            /\ candidate = KeptAfter(response, i)

\* C22: for pairwise-distinct input texts the results returned never hold
\* two records of the same text, whatever analyses fail or succeed.
C22_NoTwoRecordsOfOneText ==
    pc = "done" /\ Distinct(input_texts) =>
        \A i, j \in DOMAIN results : i # j => results[i].text # results[j].text

\* C23: when analyze_texts_with_retry has returned, the list the caller
\* passed as texts holds the elements it held before the call, in the same
\* order.
C23_CallerListUnchanged == pc = "done" => texts = input_texts

\* C21: at any moment the external calls in flight, get_response calls
\* and evaluate calls over all running analyses, are at most
\* MAX_CONCURRENT.
C21_RequestsCapped == InFlight <= MAX_CONCURRENT
====
